---- MODULE Spec2Model ----
(***************************************************************************)
(* Model of camb/reionization.py: the ctypes-mapped reionization model     *)
(* classes ReionizationModel, SplinedReionization and TanhReionization.    *)
(*                                                                         *)
(* One TanhReionization object and one SplinedReionization object are      *)
(* modelled.  c_double fields hold small naturals standing for doubles,    *)
(* c_bool fields hold BOOLEANs.  Python's None is the sentinel None, which *)
(* lies outside Values.  The compiled solver is seen through the foreign   *)
(* calls each operation makes: `last.calls` is the list of foreign calls   *)
(* made by the most recent operation, as a stub solver would record them.  *)
(***************************************************************************)
EXTENDS Integers, Sequences, FiniteSets, TLC

VARIABLES tanh, spl, table, last, lastSetter

vars == <<tanh, spl, table, last, lastSetter>>

\* ---------------------------------------------------------------- bounds
\* doubles handed to the setters and returned by the solver are 0..MaxVal
MaxVal == 2
\* longest z / Xe sequence handed to the table setters
MaxLen == 2

\* ---------------------------------------------------------------- values
\* Python's None (the default of delta_redshift and of tau)
None == -1

Values == 0 .. MaxVal

OptValues == Values \cup {None}

\* the objects a method can be called on, and return
TanhId == 1

SplId == 2

\* what is passed as `params`: a CAMBparams instance, or something else
ParamsKinds == {"CAMBparams", "other"}

\* isinstance(params, CAMBparams)
isinstance_CAMBparams(params) == params = "CAMBparams"

\* Python truth value of an optional number: None and 0 are falsy
Truthy(x) == x # None /\ x # 0

\* Python's `a or b` on optional numbers
PyOr(a, b) == IF Truthy(a) THEN a ELSE b

\* Xe samples: sequences of at most MaxLen ionization fractions, each 0 or 1
XeSeqs == UNION {[1 .. k -> {0, 1}] : k \in 0 .. MaxLen}

\* z samples: the increasing grids 0, 1, ..., k-1 of at most MaxLen points
ZSeqs == {[i \in 1 .. k |-> i - 1] : k \in 0 .. MaxLen}

\* the bounds zmin, zmax handed to set_log_regular
ZBounds == {0, 1}

\* an optional sequence argument (a keyword that may be absent / None)
Absent == [given |-> FALSE, v |-> <<>>]

Given(s) == [given |-> TRUE, v |-> s]

OptXeSeqs == {Absent} \cup {Given(s) : s \in XeSeqs}

OptZSeqs == {Absent} \cup {Given(s) : s \in ZSeqs}

\* ------------------------------------------------------- results of calls
RetSelf(id) == [kind |-> "self", v |-> id]

RetValue(x) == [kind |-> "value", v |-> x]

RetNone == [kind |-> "None", v |-> None]

Raise(exc) == [kind |-> exc, v |-> None]

Raised(ret) == ret.kind \notin {"self", "value", "None"}

\* one foreign call, as the stub solver records it
ForeignCall(f, params, tau, n, z, Xe, zmin, zmax, result) ==
    [f |-> f, params |-> params, tau |-> tau, n |-> n, z |-> z, Xe |-> Xe,
     zmin |-> zmin, zmax |-> zmax, result |-> result]

\* ------------------------------------------------------------ allocation
\* The memory an object gets before any Python __init__ runs.  No line of
\* reionization.py sets these fields at construction (except use_spline, in
\* ReionizationModel.__init__), so the allocator's image is a choice: all
\* zero bytes (k = 0) or all set (k = 1).
AllocImages == {0, 1}

AllocTanh(k) ==
    [id |-> TanhId,
     Reionization |-> (k = 1), use_spline |-> (k = 1),
     use_optical_depth |-> (k = 1), redshift |-> k, optical_depth |-> k,
     delta_redshift |-> k, fraction |-> k,
     include_helium_fullreion |-> (k = 1), helium_redshift |-> k,
     helium_delta_redshift |-> k, helium_redshiftstart |-> k,
     tau_solve_accuracy_boost |-> k, timestep_boost |-> k,
     max_redshift |-> k]

AllocSplined(k) ==
    [id |-> SplId,
     Reionization |-> (k = 1), use_spline |-> (k = 1), timestep_boost |-> k]

\* ReionizationModel.__init__
ReionizationModel_init(self) == [self EXCEPT !.use_spline = FALSE]

\* TanhReionization defines no __init__: ReionizationModel.__init__ runs
TanhReionization_new(k) == ReionizationModel_init(AllocTanh(k))

\* ------------------------------------------------------ TanhReionization
\* set_zrei without line 93: the mode flag is left as it was
set_zrei_keeps_mode(self, zrei, delta_redshift) ==
    LET s1 == [self EXCEPT !.redshift = zrei]
        s2 == IF delta_redshift # None
              THEN [s1 EXCEPT !.delta_redshift = delta_redshift]
              ELSE s1
    IN  [self |-> s2, ret |-> RetSelf(self.id)]

\* set_zrei flipping the mode flag instead of clearing it
set_zrei_toggles_mode(self, zrei, delta_redshift) ==
    LET s0 == [self EXCEPT !.use_optical_depth = ~self.use_optical_depth]
        s1 == [s0 EXCEPT !.redshift = zrei]
        s2 == IF delta_redshift # None
              THEN [s1 EXCEPT !.delta_redshift = delta_redshift]
              ELSE s1
    IN  [self |-> s2, ret |-> RetSelf(self.id)]

set_zrei(self, zrei, delta_redshift) ==
    LET s0 == [self EXCEPT !.use_optical_depth = FALSE]
        s1 == [s0 EXCEPT !.redshift = zrei]
        s2 == IF delta_redshift # None
              THEN [s1 EXCEPT !.delta_redshift = delta_redshift]
              ELSE s1
    IN  [self |-> s2, ret |-> RetSelf(self.id)]

\* set_tau storing tau in the redshift field
set_tau_wrong_field(self, tau, delta_redshift) ==
    LET s0 == [self EXCEPT !.use_optical_depth = TRUE]
        s1 == [s0 EXCEPT !.redshift = tau]
        s2 == IF delta_redshift # None
              THEN [s1 EXCEPT !.delta_redshift = delta_redshift]
              ELSE s1
    IN  [self |-> s2, ret |-> RetSelf(self.id)]

\* set_tau that also resets the transition width when none is given
set_tau_resets_delta(self, tau, delta_redshift) ==
    LET s0 == [self EXCEPT !.use_optical_depth = TRUE]
        s1 == [s0 EXCEPT !.optical_depth = tau]
        s2 == IF delta_redshift # None
              THEN [s1 EXCEPT !.delta_redshift = delta_redshift]
              ELSE [s1 EXCEPT !.delta_redshift = 0]
    IN  [self |-> s2, ret |-> RetSelf(self.id)]

set_tau(self, tau, delta_redshift) ==
    LET s0 == [self EXCEPT !.use_optical_depth = TRUE]
        s1 == [s0 EXCEPT !.optical_depth = tau]
        s2 == IF delta_redshift # None
              THEN [s1 EXCEPT !.delta_redshift = delta_redshift]
              ELSE s1
    IN  [self |-> s2, ret |-> RetSelf(self.id)]

\* the foreign call f_GetZreFromTau(byref(params), c_double(tau)); the
\* solver's answer is r
f_GetZreFromTau(params, tau, r) ==
    ForeignCall("GetZreFromTau", params, tau, 0, <<>>, <<>>, None, None, r)

\* get_zre asking the solver in every mode
get_zre_always_solves(self, params, tau, r) ==
    IF ~isinstance_CAMBparams(params)
    THEN [self |-> self, ret |-> Raise("AssertionError"), calls |-> <<>>]
    ELSE LET c == f_GetZreFromTau(params, PyOr(tau, self.optical_depth), r)
         IN  [self |-> self, ret |-> RetValue(c.result), calls |-> <<c>>]

\* get_zre without the assertion of line 123
get_zre_no_assert(self, params, tau, r) ==
    IF self.use_optical_depth \/ Truthy(tau)
    THEN LET c == f_GetZreFromTau(params, PyOr(tau, self.optical_depth), r)
         IN  [self |-> self, ret |-> RetValue(c.result), calls |-> <<c>>]
    ELSE [self |-> self, ret |-> RetValue(self.redshift), calls |-> <<>>]

\* get_zre(params, tau); r is what the solver answers if it is asked
get_zre(self, params, tau, r) ==
    IF self.use_optical_depth \/ Truthy(tau)
    THEN IF ~isinstance_CAMBparams(params)
         THEN [self |-> self, ret |-> Raise("AssertionError"), calls |-> <<>>]
         ELSE LET c == f_GetZreFromTau(params, PyOr(tau, self.optical_depth), r)
              IN  [self |-> self, ret |-> RetValue(c.result), calls |-> <<c>>]
    ELSE [self |-> self, ret |-> RetValue(self.redshift), calls |-> <<>>]

\* ---------------------------------------------------- the solver's side
\* the spline state the solver holds for the SplinedReionization object
NoTable == [kind |-> "none", n |-> 0, z |-> <<>>, Xe |-> <<>>,
            zmin |-> None, zmax |-> None]

\* SetTable inside the solver: a table of n points is established from the
\* two buffers; a count that does not match the buffers, or an empty table,
\* is a solver-side failure that leaves the solver's state as it was
Solver_SetTable(tbl, n, z, Xe) ==
    IF n = Len(z) /\ n = Len(Xe) /\ n >= 1
    THEN [ok |-> TRUE,
          table |-> [kind |-> "table", n |-> n, z |-> z, Xe |-> Xe,
                     zmin |-> None, zmax |-> None]]
    ELSE [ok |-> FALSE, table |-> tbl]

\* SetLogRegular inside the solver: needs zmin < zmax and at least 2 samples
Solver_SetLogRegular(tbl, zmin, zmax, n, Xe) ==
    IF zmin < zmax /\ n = Len(Xe) /\ n >= 2
    THEN [ok |-> TRUE,
          table |-> [kind |-> "logregular", n |-> n, z |-> <<>>, Xe |-> Xe,
                     zmin |-> zmin, zmax |-> zmax]]
    ELSE [ok |-> FALSE, table |-> tbl]

\* --------------------------------------------------- SplinedReionization
\* the foreign call f_SetTable(byref(c_int(n)), z, Xe)
f_SetTable(n, z, Xe) ==
    ForeignCall("SetTable", "other", None, n, z, Xe, None, None, None)

\* the foreign call f_SetLogRegular(byref(zmin), byref(zmax), byref(n), Xe)
f_SetLogRegular(zmin, zmax, n, Xe) ==
    ForeignCall("SetLogRegular", "other", None, n, <<>>, Xe, zmin, zmax, None)

\* set_scalar_table handing the solver a count that is one short
set_scalar_table_short_count(self, tbl, z, Xez) ==
    LET c == f_SetTable(Len(z) - 1, z, Xez)
        s == Solver_SetTable(tbl, c.n, c.z, c.Xe)
    IN  [self |-> self, table |-> s.table,
         ret |-> IF s.ok THEN RetNone ELSE Raise("SolverError"),
         calls |-> <<c>>]

\* set_scalar_table(z, Xez); tbl is the solver's state before the call
set_scalar_table(self, tbl, z, Xez) ==
    LET c == f_SetTable(Len(z), z, Xez)
        s == Solver_SetTable(tbl, c.n, c.z, c.Xe)
    IN  [self |-> self, table |-> s.table,
         ret |-> IF s.ok THEN RetNone ELSE Raise("SolverError"),
         calls |-> <<c>>]

\* set_log_regular(zmin, zmax, Xez)
set_log_regular(self, tbl, zmin, zmax, Xez) ==
    LET c == f_SetLogRegular(zmin, zmax, Len(Xez), Xez)
        s == Solver_SetLogRegular(tbl, c.zmin, c.zmax, c.n, c.Xe)
    IN  [self |-> self, table |-> s.table,
         ret |-> IF s.ok THEN RetNone ELSE Raise("SolverError"),
         calls |-> <<c>>]

\* __init__ handing the two keywords to set_scalar_table in the wrong order
SplinedReionization_init_swapped(self, tbl, zs, Xez) ==
    IF Xez.given
    THEN IF ~zs.given
         THEN [self |-> self, table |-> tbl, ret |-> Raise("KeyError"),
               calls |-> <<>>]
         ELSE set_scalar_table(self, tbl, Xez.v, zs.v)
    ELSE [self |-> self, table |-> tbl, ret |-> RetNone, calls |-> <<>>]

\* SplinedReionization.__init__(**kwargs) with the keywords zs and Xez;
\* ReionizationModel.__init__ is not called, use_spline stays as allocated
SplinedReionization_init(self, tbl, zs, Xez) ==
    IF Xez.given
    THEN IF ~zs.given
         THEN [self |-> self, table |-> tbl, ret |-> Raise("KeyError"),
               calls |-> <<>>]
         ELSE set_scalar_table(self, tbl, zs.v, Xez.v)
    ELSE [self |-> self, table |-> tbl, ret |-> RetNone, calls |-> <<>>]

\* ------------------------------------------------------- the call record
\* the most recent operation: its name, arguments, result and foreign calls
Call(op, x, delta, params, zs, Xez, ret, calls, repeat) ==
    [op |-> op, x |-> x, delta |-> delta, params |-> params, zs |-> zs,
     Xez |-> Xez, ret |-> ret, calls |-> calls, repeat |-> repeat]

NoCall == Call("new", None, None, "other", Absent, Absent, RetNone, <<>>, FALSE)

\* ---------------------------------------------------------------- state
\* after TanhReionization() and SplinedReionization()
Init ==
    /\ \E k \in AllocImages : tanh = TanhReionization_new(k)
    /\ \E k \in AllocImages : spl = AllocSplined(k)
    /\ table = NoTable
    /\ last = NoCall
    /\ lastSetter = "none"

SetZrei ==
    \E zrei \in Values, d \in OptValues :
        LET r == set_zrei(tanh, zrei, d)
        IN  /\ tanh' = r.self
            /\ last' = Call("set_zrei", zrei, d, "other", Absent, Absent, r.ret, <<>>,
                            last.op = "set_zrei" /\ last.x = zrei /\ last.delta = d)
            /\ lastSetter' = "set_zrei"
            /\ UNCHANGED <<spl, table>>

SetTau ==
    \E tau \in Values, d \in OptValues :
        LET r == set_tau(tanh, tau, d)
        IN  /\ tanh' = r.self
            /\ last' = Call("set_tau", tau, d, "other", Absent, Absent, r.ret, <<>>,
                            last.op = "set_tau" /\ last.x = tau /\ last.delta = d)
            /\ lastSetter' = "set_tau"
            /\ UNCHANGED <<spl, table>>

GetZre ==
    \E params \in ParamsKinds, tau \in OptValues, r \in Values :
        LET g == get_zre(tanh, params, tau, r)
        IN  /\ tanh' = g.self
            /\ last' = Call("get_zre", tau, None, params, Absent, Absent, g.ret, g.calls,
                            FALSE)
            /\ UNCHANGED <<spl, table, lastSetter>>

\* SplinedReionization(zs=..., Xez=...): a fresh object with a fresh solver
\* side; a constructor that raises hands no object to the caller
NewSplined ==
    \E k \in AllocImages, zs \in OptZSeqs, Xez \in OptXeSeqs :
        LET r == SplinedReionization_init(AllocSplined(k), NoTable, zs, Xez)
        IN  /\ spl' = IF Raised(r.ret) THEN spl ELSE r.self
            /\ table' = IF Raised(r.ret) THEN table ELSE r.table
            /\ last' = Call("SplinedReionization", None, None, "other", zs, Xez,
                            r.ret, r.calls, FALSE)
            /\ UNCHANGED <<tanh, lastSetter>>

SetScalarTable ==
    \E z \in ZSeqs, Xez \in XeSeqs :
        LET r == set_scalar_table(spl, table, z, Xez)
        IN  /\ spl' = r.self
            /\ table' = r.table
            /\ last' = Call("set_scalar_table", None, None, "other",
                            Given(z), Given(Xez),
                            r.ret, r.calls, FALSE)
            /\ UNCHANGED <<tanh, lastSetter>>

SetLogRegular ==
    \E zmin \in ZBounds, zmax \in ZBounds, Xez \in XeSeqs :
        LET r == set_log_regular(spl, table, zmin, zmax, Xez)
        IN  /\ spl' = r.self
            /\ table' = r.table
            /\ last' = Call("set_log_regular", zmin, zmax, "other", Absent,
                            Given(Xez), r.ret, r.calls, FALSE)
            /\ UNCHANGED <<tanh, lastSetter>>

Next == SetZrei \/ SetTau \/ GetZre

Spec == Init /\ [][Next]_vars

NextSplined == NewSplined \/ SetScalarTable \/ SetLogRegular

SpecSplined == Init /\ [][NextSplined]_vars


\* ================================================================ claims
\* the fields neither setter names
OtherFields(o) ==
    <<o.id, o.Reionization, o.use_spline, o.fraction,
      o.include_helium_fullreion, o.helium_redshift, o.helium_delta_redshift,
      o.helium_redshiftstart, o.tau_solve_accuracy_boost, o.timestep_boost,
      o.max_redshift>>

\* C1: after any non-empty sequence of set_zrei / set_tau calls (get_zre
\* calls may come in between), use_optical_depth is FALSE if the most recent
\* setter call was set_zrei and TRUE if it was set_tau.
C1_ModeMatchesLastSetter ==
    /\ lastSetter = "set_zrei" => tanh.use_optical_depth = FALSE
    /\ lastSetter = "set_tau" => tanh.use_optical_depth = TRUE

\* both setters have been called, set_zrei last
C1_Witness ==
    /\ lastSetter = "set_zrei"
    /\ tanh.optical_depth = MaxVal
    /\ tanh.redshift = MaxVal
    /\ ~tanh.use_optical_depth

\* C2 (as claimed): get_zre with a CAMBparams object, in OpticalDepthMode or
\* with any tau override (0 included), calls GetZreFromTau exactly once with
\* the effective tau (the override if given, else optical_depth) and returns
\* the solver's result.
C2_Claim ==
    (/\ last.op = "get_zre"
     /\ isinstance_CAMBparams(last.params)
     /\ (tanh.use_optical_depth \/ last.x # None))
    => /\ Len(last.calls) = 1
       /\ last.calls[1].f = "GetZreFromTau"
       /\ last.calls[1].tau = (IF last.x # None THEN last.x ELSE tanh.optical_depth)
       /\ last.ret = RetValue(last.calls[1].result)

\* C3: get_zre in RedshiftMode with no tau override returns the stored
\* redshift and makes no foreign call.
C3_RedshiftModeNoSolver ==
    [][(/\ last'.op = "get_zre"
        /\ ~tanh.use_optical_depth
        /\ last'.x = None)
       => /\ last'.ret = RetValue(tanh.redshift)
          /\ last'.calls = <<>>]_vars

\* get_zre(params) answered from a redshift that set_zrei stored
C3_Witness ==
    /\ last.op = "get_zre"
    /\ last.x = None
    /\ lastSetter = "set_zrei"
    /\ ~tanh.use_optical_depth
    /\ last.ret = RetValue(MaxVal)
    /\ last.calls = <<>>

\* C4 (as claimed): get_zre with a params object that is not a CAMBparams
\* always ends in an assertion failure, in any mode and with or without a
\* tau override, and never calls GetZreFromTau.
C4_Claim ==
    (last.op = "get_zre" /\ ~isinstance_CAMBparams(last.params))
    => /\ last.ret = Raise("AssertionError")
       /\ last.calls = <<>>

\* C4 (amended): get_zre with a params object that is not a CAMBparams never
\* calls GetZreFromTau; it ends in an assertion failure when the object is
\* in OpticalDepthMode or a tau override other than 0 is given, and
\* otherwise returns the stored redshift without looking at params.
C4_AssertOnlyOnSolverPath ==
    [][(last'.op = "get_zre" /\ ~isinstance_CAMBparams(last'.params))
       => /\ last'.calls = <<>>
          /\ IF tanh.use_optical_depth \/ (last'.x # None /\ last'.x # 0)
             THEN last'.ret = Raise("AssertionError")
             ELSE last'.ret = RetValue(tanh.redshift)]_vars

\* an assertion failure in RedshiftMode, caused by a tau override
C4_Witness ==
    /\ last.op = "get_zre"
    /\ ~isinstance_CAMBparams(last.params)
    /\ ~tanh.use_optical_depth
    /\ last.x = MaxVal
    /\ last.ret = Raise("AssertionError")

\* C5: after set_zrei(v) the object has use_optical_depth = FALSE and
\* redshift = v; after set_tau(v) it has use_optical_depth = TRUE and
\* optical_depth = v; each setter returns the object it was called on.
C5_SetterAuthoritative ==
    /\ last.op = "set_zrei"
       => /\ tanh.use_optical_depth = FALSE
          /\ tanh.redshift = last.x
          /\ last.ret = RetSelf(tanh.id)
    /\ last.op = "set_tau"
       => /\ tanh.use_optical_depth = TRUE
          /\ tanh.optical_depth = last.x
          /\ last.ret = RetSelf(tanh.id)

\* set_tau(v) on an object whose redshift holds another value
C5_Witness ==
    /\ last.op = "set_tau"
    /\ last.x = MaxVal
    /\ tanh.optical_depth = MaxVal
    /\ tanh.redshift # MaxVal
    /\ tanh.use_optical_depth

\* C6 (as claimed): in every reachable state use_spline is TRUE for the
\* SplinedReionization object and FALSE for the TanhReionization object.
C6_Claim ==
    /\ spl.use_spline = TRUE
    /\ tanh.use_spline = FALSE

C8_SetZreiIdempotent ==
    [][(last'.op = "set_zrei" /\ last'.repeat) => tanh' = tanh]_vars

\* set_zrei(v, d) has just been called twice in a row
C8_Witness ==
    /\ last.op = "set_zrei"
    /\ last.repeat
    /\ last.delta # None
    /\ tanh.redshift = last.x
    /\ tanh.delta_redshift = last.delta

\* C9: SplinedReionization(zs=..., Xez=...) with both keywords makes exactly
\* one SetTable call, with z = zs, Xe = Xez and count = len(zs); without Xez
\* it makes no foreign call.
C9_ConstructionSetsTable ==
    last.op = "SplinedReionization"
    => /\ (last.Xez.given /\ last.zs.given)
          => /\ Len(last.calls) = 1
             /\ last.calls[1].f = "SetTable"
             /\ last.calls[1].z = last.zs.v
             /\ last.calls[1].Xe = last.Xez.v
             /\ last.calls[1].n = Len(last.zs.v)
       /\ ~last.Xez.given => last.calls = <<>>

\* a construction with a two-point table
C9_Witness ==
    /\ last.op = "SplinedReionization"
    /\ last.Xez.given
    /\ last.zs.given
    /\ Len(last.zs.v) = 2
    /\ last.Xez.v = <<1, 1>>
    /\ Len(last.calls) = 1
    /\ table.kind = "table"

\* C10: set_zrei leaves optical_depth unchanged and set_tau leaves redshift
\* unchanged; both leave delta_redshift unchanged when the argument is
\* omitted and set it to the argument otherwise; both leave every other
\* field unchanged; get_zre changes no field.
C10_Frame ==
    [][/\ last'.op = "set_zrei"
          => /\ tanh'.optical_depth = tanh.optical_depth
             /\ tanh'.delta_redshift =
                    (IF last'.delta = None THEN tanh.delta_redshift ELSE last'.delta)
             /\ OtherFields(tanh') = OtherFields(tanh)
       /\ last'.op = "set_tau"
          => /\ tanh'.redshift = tanh.redshift
             /\ tanh'.delta_redshift =
                    (IF last'.delta = None THEN tanh.delta_redshift ELSE last'.delta)
             /\ OtherFields(tanh') = OtherFields(tanh)
       /\ last'.op = "get_zre" => tanh' = tanh]_vars

\* set_tau(v) with delta_redshift omitted, after set_zrei(MaxVal, MaxVal)
C10_Witness ==
    /\ last.op = "set_tau"
    /\ last.delta = None
    /\ tanh.redshift = MaxVal
    /\ tanh.delta_redshift = MaxVal
    /\ tanh.optical_depth = 0

====
